---- MODULE Spec2Model ----
(***************************************************************************)
(* Model of dupe_finder.py: the 1Password duplicate archiver.              *)
(*                                                                         *)
(* Python strings are sequences of one-character strings, so that string   *)
(* comparison (code point order, lexicographic), str.lower, str.isdigit    *)
(* and int() are computed rather than assumed.  A JSON object is a record  *)
(* whose DOMAIN holds exactly the keys that are present.                   *)
(***************************************************************************)
EXTENDS Integers, Sequences, FiniteSets, TLC

VARIABLES
    pc,               \* position of main (or of the function under test)
    op_installed,     \* whether the `op` executable can be started
    vault,            \* the items of the vault, in the store's listing order
    archived,         \* ids the store has moved to the archive
    archived_before,  \* the value of archived when the current run started
    dry,              \* the --dry flag
    vault_arg,        \* whether VAULT_NAME was given on the command line
    run,              \* number of the current run of main
    call,             \* the last subprocess listing call and how it ended
    accounts,         \* main: accounts
    account_user_id,  \* main: account_user_id
    vault_name,       \* main: vault_name
    options,          \* select_option: options
    option_index,     \* select_option: the last input (<<>> before the first)
    selected_option,  \* select_option: selected_option (<<>> is None)
    duplicates,       \* main: duplicates (dict kept as an insertion-ordered sequence)
    total_duplicates, \* main: total_duplicates
    user_input,       \* main: the answer to the archive prompt (<<>> before it)
    pos,              \* main: position in the archive loops (index in the worklist)
    invocations,      \* `op item delete` commands that were run, with exit status
    described,        \* `op item delete` commands that were printed by --dry
    console,          \* the message main printed before it returned ("" before)
    prev_converged    \* the previous run archived every duplicate it found

vars == <<pc, op_installed, vault, archived, archived_before, dry, vault_arg, run,
          call, accounts, account_user_id, vault_name, options, option_index,
          selected_option, duplicates, total_duplicates, user_input, pos,
          invocations, described, console, prev_converged>>

----------------------------------------------------------------------------
(* Bounds *)

MaxLen == 4       \* longest item listing given to find_duplicates alone
MaxItems == 3     \* most items in a vault drawn from MainPool
MaxOptions == 2   \* longest option list given to select_option alone
MaxRuns == 1      \* runs of main after the first one

----------------------------------------------------------------------------
(* Python strings *)

\* ord(c): the Unicode code point.
CodePoint(c) ==
    CASE c = "-" -> 45
      [] c = "0" -> 48 [] c = "1" -> 49 [] c = "2" -> 50 [] c = "3" -> 51
      [] c = "4" -> 52 [] c = "5" -> 53 [] c = "6" -> 54
      [] c = "A" -> 65 [] c = "B" -> 66 [] c = "N" -> 78 [] c = "Y" -> 89
      [] c = "a" -> 97 [] c = "e" -> 101 [] c = "n" -> 110 [] c = "s" -> 115
      [] c = "x" -> 120 [] c = "y" -> 121
      [] c = "SUPERSCRIPT TWO" -> 178

\* s < t for str: lexicographic on code points, a proper prefix is smaller.
RECURSIVE StrLess(_, _)
StrLess(s, t) ==
    IF t = <<>> THEN FALSE
    ELSE IF s = <<>> THEN TRUE
    ELSE IF CodePoint(Head(s)) # CodePoint(Head(t))
         THEN CodePoint(Head(s)) < CodePoint(Head(t))
    ELSE StrLess(Tail(s), Tail(t))

\* str.lower()
LowerChar(c) == CASE c = "A" -> "a" [] c = "B" -> "b" [] c = "N" -> "n"
                  [] c = "Y" -> "y" [] OTHER -> c
lower(s) == [i \in 1..Len(s) |-> LowerChar(s[i])]

\* str.isdigit(): non-empty and every character has the Unicode digit property
\* (which SUPERSCRIPT TWO has).
DigitChars == {"0", "1", "2", "3", "4", "5", "6", "SUPERSCRIPT TWO"}
isdigit(s) == s # <<>> /\ \A i \in 1..Len(s) : s[i] \in DigitChars

\* int(s) accepts decimal digits only; it raises ValueError on SUPERSCRIPT TWO.
DecimalChars == {"0", "1", "2", "3", "4", "5", "6"}
int_raises(s) == \E i \in 1..Len(s) : s[i] \notin DecimalChars
RECURSIVE int(_)
int(s) == IF s = <<>> THEN 0
          ELSE 10 * int(SubSeq(s, 1, Len(s) - 1)) + (CodePoint(s[Len(s)]) - 48)

Reverse(s) == [i \in 1..Len(s) |-> s[Len(s) + 1 - i]]

----------------------------------------------------------------------------
(* find_duplicates *)

\* item.get(key) is truthy: the key is present and its string is not empty.
Truthy(item, key) == key \in DOMAIN item /\ item[key] # <<>>

\* Variant of IsValid that forgets the id.
IsValidNoId(item) == Truthy(item, "title") /\ Truthy(item, "updated_at")
\* line 64: if title and updated_at and item_id
IsValid(item) ==
    Truthy(item, "title") /\ Truthy(item, "updated_at") /\ Truthy(item, "id")

\* item_dict[title].append(item) on a defaultdict(list): a new key goes last.
DictAppend(item_dict, title, item) ==
    IF \E i \in 1..Len(item_dict) : item_dict[i].title = title
    THEN [i \in 1..Len(item_dict) |->
            IF item_dict[i].title = title
            THEN [title |-> title, items |-> Append(item_dict[i].items, item)]
            ELSE item_dict[i]]
    ELSE Append(item_dict, [title |-> title, items |-> <<item>>])

\* lines 58-65: the loop over items
RECURSIVE GroupByTitle(_, _)
GroupByTitle(items, item_dict) ==
    IF items = <<>> THEN item_dict
    ELSE GroupByTitle(Tail(items),
                      IF IsValid(Head(items))
                      THEN DictAppend(item_dict, Head(items).title, Head(items))
                      ELSE item_dict)

\* Stable ascending insertion: x goes behind every element whose key is <= its own.
RECURSIVE InsertByUpdatedAt(_, _)
InsertByUpdatedAt(sorted_items, x) ==
    IF sorted_items = <<>> THEN <<x>>
    ELSE IF StrLess(x.updated_at, Head(sorted_items).updated_at)
         THEN <<x>> \o sorted_items
    ELSE <<Head(sorted_items)>> \o InsertByUpdatedAt(Tail(sorted_items), x)

RECURSIVE SortAscending(_, _)
SortAscending(items, acc) ==
    IF items = <<>> THEN acc
    ELSE SortAscending(Tail(items), InsertByUpdatedAt(acc, Head(items)))

\* Variants of the sort: reversing a stable ascending sort (which turns ties
\* around), and leaving out reverse=True.
SortedPlainReverse(items) == Reverse(SortAscending(items, <<>>))
SortedAscendingOnly(items) == SortAscending(items, <<>>)
\* lines 71-75: sorted(items_for_title, key=updated_at, reverse=True).  CPython
\* reverses the list, sorts it ascending with a stable sort, and reverses it again.
SortedByUpdatedAtDesc(items) == Reverse(SortAscending(Reverse(items), <<>>))

\* Variant of IsDuplicateSet that also takes single items.
MoreThanNone(n) == n > 0
\* line 69: len(items_for_title) > 1
IsDuplicateSet(n) == n > 1

\* lines 67-76: the loop over item_dict
RECURSIVE CollectDuplicates(_, _)
CollectDuplicates(item_dict, dups) ==
    IF item_dict = <<>> THEN dups
    ELSE CollectDuplicates(Tail(item_dict),
            IF IsDuplicateSet(Len(Head(item_dict).items))
            THEN Append(dups, [title |-> Head(item_dict).title,
                               items |-> SortedByUpdatedAtDesc(Head(item_dict).items)])
            ELSE dups)

\* lines 55-78, given what list_items_in_vault returned
find_duplicates(items) == CollectDuplicates(GroupByTitle(items, <<>>), <<>>)

----------------------------------------------------------------------------
(* The external program `op` and the store behind it *)

NoStdout == [kind |-> "empty", value |-> <<>>]
TextStdout == [kind |-> "text", value |-> <<>>]
JsonStdout(v) == [kind |-> "json", value |-> v]

Account1 == [url |-> <<"my">>, email |-> <<"a@x">>, user_uuid |-> <<"U1">>]
Account2 == [url |-> <<"my">>, email |-> <<"b@x">>, user_uuid |-> <<"U2">>]

\* What `op account list --format json` can print.
AccountStdouts ==
    {NoStdout, TextStdout, JsonStdout(<<>>), JsonStdout(<<Account1>>),
     JsonStdout(<<Account1, Account2>>)}

\* What `op vault list --format json` can print.
VaultStdouts ==
    {NoStdout, TextStdout, JsonStdout(<<>>), JsonStdout(<<[name |-> <<"V">>]>>),
     JsonStdout(<<[name |-> <<"V">>], [name |-> <<"W">>]>>)}

\* `op item list` shows the items of the vault that are not archived.
ActiveItems(items, arch) ==
    SelectSeq(items, LAMBDA it : ~("id" \in DOMAIN it /\ it.id \in arch))

\* What `op item list --vault V --format json` can print.
ItemStdouts(items, arch) ==
    {NoStdout, TextStdout, JsonStdout(ActiveItems(items, arch))}

\* The result of one listing function: what it raised and what it returned.
Returned(v) == [raised |-> "no", result |-> v]
Raised(e) == [raised |-> e, result |-> <<>>]

\* json.loads(result.stdout) if result.stdout else []
LoadsOrEmpty(stdout) ==
    IF stdout.kind = "empty" THEN Returned(<<>>)
    ELSE IF stdout.kind = "text" THEN Raised("JSONDecodeError")
    ELSE Returned(stdout.value)

\* subprocess.run raises FileNotFoundError when the executable cannot be started.
list_accounts(installed, stdout) ==
    IF ~installed THEN Raised("FileNotFoundError") ELSE LoadsOrEmpty(stdout)

list_vaults(installed, stdout) ==
    IF ~installed THEN Raised("FileNotFoundError") ELSE LoadsOrEmpty(stdout)

list_items_in_vault(installed, stdout) ==
    IF ~installed THEN Raised("FileNotFoundError") ELSE LoadsOrEmpty(stdout)

Called(fn, installed, stdout, r) ==
    [fn |-> fn, installed |-> installed, stdout |-> stdout.kind,
     raised |-> r.raised, result |-> r.result]

NoCall == [fn |-> "none", installed |-> TRUE, stdout |-> "empty",
           raised |-> "no", result |-> <<>>]

----------------------------------------------------------------------------
(* select_option *)

\* One pass of the while loop, lines 90-95, for the input option_index.
\*   "raise":   int() raised ValueError
\*   "invalid": "Invalid option. Please try again." was printed
\*   "again":   selected_option was assigned a falsy option, the loop goes on
\*   "return":  the loop ended and selected_option is returned
SelectPass(opts, input) ==
    IF isdigit(input) /\ int_raises(input) THEN [kind |-> "raise", value |-> <<>>]
    ELSE IF isdigit(input) /\ 1 <= int(input) /\ int(input) <= Len(opts)
         THEN IF opts[int(input)] = <<>>
              THEN [kind |-> "again", value |-> <<>>]
              ELSE [kind |-> "return", value |-> opts[int(input)]]
    ELSE [kind |-> "invalid", value |-> <<>>]

\* list.index(x): the first position holding x
ListIndex(list, x) == CHOOSE i \in 1..Len(list) :
    list[i] = x /\ \A j \in 1..(i - 1) : list[j] # x

Sep == <<" ", "-", " ">>
\* f"{a['url']} - {a['email']} - {a['user_uuid']}"
AccountOption(a) == a.url \o Sep \o a.email \o Sep \o a.user_uuid
AccountOptions(accts) == [i \in 1..Len(accts) |-> AccountOption(accts[i])]
VaultOptions(vs) == [i \in 1..Len(vs) |-> vs[i].name]

----------------------------------------------------------------------------
(* main *)

\* Variant of ItemsToArchive that does not spare the first item.
ItemsToArchiveAll(items_list) == items_list
\* line 190: items_list[1:]
ItemsToArchive(items_list) == Tail(items_list)

\* lines 188-191: the archive loops visit, group after group, every member but
\* the first.
RECURSIVE Worklist(_)
Worklist(dups) ==
    IF dups = <<>> THEN <<>>
    ELSE ItemsToArchive(Head(dups).items) \o Worklist(Tail(dups))

\* lines 164-166
RECURSIVE TotalDuplicates(_)
TotalDuplicates(dups) ==
    IF dups = <<>> THEN 0
    ELSE (Len(Head(dups).items) - 1) + TotalDuplicates(Tail(dups))

\* Variant of Cmd that passes item_title where the id belongs.
CmdWithTitle(item, vname, account) ==
    [id |-> item.title, vault |-> vname, account |-> account]

\* lines 194-204
Cmd(item, vname, account) ==
    [id |-> item.id, vault |-> vname, account |-> account]

\* Variant of Continues as with check=True: a non-zero exit status raises.
ContinuesOnSuccess(rc) == rc = 0
\* line 209: subprocess.run is called without check=True and its result is
\* dropped, so the loop goes on whatever the exit status
Continues(rc) == TRUE

\* Variant of AnswerIsYes that takes any answer for a yes.
AnswerIsAnything(input) == TRUE
\* line 175: user_input.lower() != 'y' aborts
AnswerIsYes(input) == lower(input) = <<"y">>

\* What the operator can type at a menu, and at the archive prompt.
MenuInputs == {<<"1">>, <<"2">>, <<"x">>, <<"SUPERSCRIPT TWO">>}
Answers == {<<"y">>, <<"Y">>, <<>>, <<"y", "e", "s">>}

\* The store's exit status for `op item delete ID --archive`.
ExitCodes == {0, 1}

\* The return to the caller of select_option clears its locals.
LeaveSelect ==
    /\ options' = <<>>
    /\ option_index' = <<>>
    /\ selected_option' = <<>>

StaySelect(input) ==
    /\ option_index' = <<input>>
    /\ UNCHANGED <<options, selected_option>>

\* lines 119-126 and 141-154, up to the next prompt
ListAccounts ==
    /\ pc = "list_accounts"
    /\ \E stdout \in AccountStdouts :
        LET r == list_accounts(op_installed, stdout) IN
        /\ call' = Called("list_accounts", op_installed, stdout, r)
        /\ IF r.raised # "no"
           THEN /\ pc' = "raised"
                /\ UNCHANGED <<accounts, account_user_id, options, console>>
           ELSE IF r.result = <<>>
           THEN /\ pc' = "done"
                /\ console' = "No accounts found"
                /\ UNCHANGED <<accounts, account_user_id, options>>
           ELSE IF vault_arg # <<>> /\ Len(r.result) = 1
           THEN /\ pc' = "find_duplicates"
                /\ accounts' = r.result
                /\ account_user_id' = r.result[1].user_uuid
                /\ UNCHANGED <<options, console>>
           ELSE /\ pc' = "select_account"
                /\ accounts' = r.result
                /\ options' = AccountOptions(r.result)
                /\ UNCHANGED <<account_user_id, console>>
    /\ UNCHANGED <<prev_converged, archived_before, op_installed, vault, archived, dry, vault_arg, run, vault_name,
                   option_index, selected_option, duplicates, total_duplicates,
                   user_input, pos, invocations, described>>

\* lines 127-130 and 152-154: one answer to the account menu
SelectAccount ==
    /\ pc = "select_account"
    /\ \E input \in MenuInputs :
        LET r == SelectPass(options, input) IN
        IF r.kind = "raise"
        THEN /\ pc' = "raised"
             /\ StaySelect(input)
             /\ UNCHANGED <<account_user_id, console>>
        ELSE IF r.kind = "invalid"
        THEN /\ StaySelect(input)
             /\ UNCHANGED <<pc, account_user_id, console>>
        ELSE IF r.kind = "again"
        THEN /\ StaySelect(input)
             /\ UNCHANGED <<pc, account_user_id, console>>
        ELSE /\ account_user_id' = accounts[ListIndex(options, r.value)].user_uuid
             /\ LeaveSelect
             /\ pc' = IF vault_arg = <<>> THEN "list_vaults" ELSE "find_duplicates"
             /\ UNCHANGED console
    /\ UNCHANGED <<prev_converged, archived_before, op_installed, vault, archived, dry, vault_arg, run, call, accounts,
                   vault_name, duplicates, total_duplicates, user_input, pos,
                   invocations, described>>

\* lines 133-138, up to the prompt
ListVaults ==
    /\ pc = "list_vaults"
    /\ \E stdout \in VaultStdouts :
        LET r == list_vaults(op_installed, stdout) IN
        /\ call' = Called("list_vaults", op_installed, stdout, r)
        /\ IF r.raised # "no"
           THEN pc' = "raised" /\ UNCHANGED <<options, console>>
           ELSE IF r.result = <<>>
           THEN /\ pc' = "done"
                /\ console' = "No vaults found"
                /\ UNCHANGED options
           ELSE /\ pc' = "select_vault"
                /\ options' = VaultOptions(r.result)
                /\ UNCHANGED console
    /\ UNCHANGED <<prev_converged, archived_before, op_installed, vault, archived, dry, vault_arg, run, accounts,
                   account_user_id, vault_name, option_index, selected_option,
                   duplicates, total_duplicates, user_input, pos, invocations,
                   described>>

\* line 138 and line 156: one answer to the vault menu
SelectVault ==
    /\ pc = "select_vault"
    /\ \E input \in MenuInputs :
        LET r == SelectPass(options, input) IN
        IF r.kind = "raise"
        THEN /\ pc' = "raised"
             /\ StaySelect(input)
             /\ UNCHANGED <<vault_name, console>>
        ELSE IF r.kind = "invalid"
        THEN /\ StaySelect(input)
             /\ UNCHANGED <<pc, vault_name, console>>
        ELSE IF r.kind = "again"
        THEN /\ StaySelect(input)
             /\ UNCHANGED <<pc, vault_name, console>>
        ELSE /\ vault_name' = r.value
             /\ LeaveSelect
             /\ pc' = "find_duplicates"
             /\ UNCHANGED console
    /\ UNCHANGED <<prev_converged, archived_before, op_installed, vault, archived, dry, vault_arg, run, call, accounts,
                   account_user_id, duplicates, total_duplicates, user_input, pos,
                   invocations, described>>

\* lines 157-171, up to the archive prompt
FindDuplicates ==
    /\ pc = "find_duplicates"
    /\ \E stdout \in ItemStdouts(vault, archived) :
        LET r == list_items_in_vault(op_installed, stdout)
            d == find_duplicates(r.result)
        IN
        /\ call' = Called("list_items_in_vault", op_installed, stdout, r)
        /\ IF r.raised # "no"
           THEN pc' = "raised" /\ UNCHANGED <<duplicates, total_duplicates, console>>
           ELSE IF d = <<>>
           THEN /\ pc' = "done"
                /\ console' = "No duplicates found"
                /\ UNCHANGED <<duplicates, total_duplicates>>
           ELSE /\ pc' = "confirm"
                /\ duplicates' = d
                /\ total_duplicates' = TotalDuplicates(d)
                /\ UNCHANGED console
    /\ UNCHANGED <<prev_converged, archived_before, op_installed, vault, archived, dry, vault_arg, run, accounts,
                   account_user_id, vault_name, options, option_index,
                   selected_option, user_input, pos, invocations, described>>

\* lines 174-179: the answer to "Would you like to archive these duplicates now?"
Confirm ==
    /\ pc = "confirm"
    /\ \E input \in Answers :
        /\ user_input' = <<input>>
        /\ IF AnswerIsYes(input)
           THEN pc' = "archive" /\ pos' = 1 /\ UNCHANGED console
           ELSE /\ pc' = "done"
                /\ console' = "Aborting: No items were archived"
                /\ UNCHANGED pos
    /\ UNCHANGED <<prev_converged, archived_before, op_installed, vault, archived, dry, vault_arg, run, call, accounts,
                   account_user_id, vault_name, options, option_index,
                   selected_option, duplicates, total_duplicates, invocations,
                   described>>

\* lines 211-213: progress.advance, the next member or group, "Done!" after the last
Advance ==
    IF pos = Len(Worklist(duplicates))
    THEN pc' = "done" /\ console' = "Done! The duplicates have been archived" /\ pos' = pos
    ELSE pos' = pos + 1 /\ UNCHANGED <<pc, console>>

\* lines 191-206: one pass of the inner loop under --dry
ArchiveDry ==
    /\ pc = "archive"
    /\ dry
    /\ described' = Append(described,
                           Cmd(Worklist(duplicates)[pos], vault_name, account_user_id))
    /\ Advance
    /\ UNCHANGED <<prev_converged, archived_before, op_installed, vault, archived, dry, vault_arg, run, call, accounts,
                   account_user_id, vault_name, options, option_index,
                   selected_option, duplicates, total_duplicates, user_input,
                   invocations>>

\* lines 191-209: one pass of the inner loop without --dry; the exit status of the
\* command is not looked at
ArchiveExecute ==
    /\ pc = "archive"
    /\ ~dry
    /\ \E rc \in ExitCodes :
        LET cmd == Cmd(Worklist(duplicates)[pos], vault_name, account_user_id) IN
        /\ invocations' = Append(invocations, [cmd |-> cmd, rc |-> rc])
        /\ archived' = IF rc = 0 THEN archived \cup {cmd.id} ELSE archived
        /\ IF Continues(rc)
           THEN Advance
           ELSE pc' = "raised" /\ UNCHANGED <<pos, console>>
    /\ UNCHANGED <<prev_converged, archived_before, op_installed, vault, dry, vault_arg, run, call, accounts,
                   account_user_id, vault_name, options, option_index,
                   selected_option, duplicates, total_duplicates, user_input,
                   described>>

----------------------------------------------------------------------------
(* Runs of the program *)

IdChars == <<"1", "2", "3", "4", "5", "6">>
Item(i, t, u) == [id |-> <<IdChars[i]>>, title |-> t, updated_at |-> u]

\* The store gives every item its own id: the item listed i-th carries id i.
MainPool(i) ==
    {Item(i, <<"A">>, <<"1">>), Item(i, <<"A">>, <<"2">>), Item(i, <<"B">>, <<"1">>),
     [title |-> <<"A">>, updated_at |-> <<"2">>]}

\* A vault with two duplicate sets, listed interleaved.
TwoGroups ==
    <<Item(1, <<"A">>, <<"1">>), Item(2, <<"B">>, <<"1">>),
      Item(3, <<"A">>, <<"2">>), Item(4, <<"B">>, <<"1">>)>>

\* The listings of at most n items.
RECURSIVE MainListings(_)
MainListings(n) ==
    IF n = 0 THEN {<<>>}
    ELSE LET shorter == MainListings(n - 1) IN
         shorter \cup
         {Append(l, it) : l \in {x \in shorter : Len(x) = n - 1}, it \in MainPool(n)}

Locals ==
    /\ call = NoCall
    /\ accounts = <<>>
    /\ account_user_id = <<>>
    /\ options = <<>>
    /\ option_index = <<>>
    /\ selected_option = <<>>
    /\ duplicates = <<>>
    /\ total_duplicates = 0
    /\ user_input = <<>>
    /\ pos = 0
    /\ invocations = <<>>
    /\ described = <<>>
    /\ console = ""

ResetLocals ==
    /\ call' = NoCall
    /\ accounts' = <<>>
    /\ account_user_id' = <<>>
    /\ options' = <<>>
    /\ option_index' = <<>>
    /\ selected_option' = <<>>
    /\ duplicates' = <<>>
    /\ total_duplicates' = 0
    /\ user_input' = <<>>
    /\ pos' = 0
    /\ invocations' = <<>>
    /\ described' = <<>>
    /\ console' = ""

\* lines 98-101 and 215-216: the command line of a run
Init ==
    /\ pc = "list_accounts"
    /\ op_installed \in BOOLEAN
    /\ vault \in MainListings(MaxItems) \cup {TwoGroups}
    /\ archived = {}
    /\ archived_before = {}
    /\ dry \in BOOLEAN
    /\ vault_arg \in {<<>>, <<"V">>}
    /\ vault_name = vault_arg
    /\ run = 1
    /\ prev_converged = FALSE
    /\ Locals

\* lines 215-216: after a run that went through the archive loops, the operator
\* runs the same command again
Restart ==
    /\ pc = "done"
    /\ console = "Done! The duplicates have been archived"
    /\ run <= MaxRuns
    /\ run' = run + 1
    /\ pc' = "list_accounts"
    /\ prev_converged' = (/\ ~dry
                          /\ \A k \in 1..Len(invocations) : invocations[k].rc = 0)
    /\ vault_name' = vault_arg
    /\ archived_before' = archived
    /\ ResetLocals
    /\ UNCHANGED <<op_installed, vault, archived, dry, vault_arg>>

Next ==
    \/ ListAccounts
    \/ SelectAccount
    \/ ListVaults
    \/ SelectVault
    \/ FindDuplicates
    \/ Confirm
    \/ ArchiveDry
    \/ ArchiveExecute
    \/ Restart

Spec == Init /\ [][Next]_vars

----------------------------------------------------------------------------
(* find_duplicates on its own *)

Date(m) == <<"2", "0", "2", "4", "-", "0", m, "-", "0", "1">>

\* The listing of the specification's scenario.
ScenarioItems ==
    << [id |-> <<"1">>, title |-> <<"A">>, updated_at |-> Date("1")],
       [id |-> <<"2">>, title |-> <<"A">>, updated_at |-> Date("3")],
       [id |-> <<"3">>, title |-> <<"B">>, updated_at |-> Date("1")] >>

\* Items as `op item list` may print them: complete ones, and ones with one of
\* the three keys absent or empty.
FDPool(i) ==
    {Item(i, <<"A">>, <<"1">>), Item(i, <<"A">>, <<"1", "2">>),
     Item(i, <<"A">>, <<"2">>), Item(i, <<"a">>, <<"2">>),
     [id |-> <<IdChars[i]>>, updated_at |-> <<"2">>],
     Item(i, <<>>, <<"2">>),
     [id |-> <<IdChars[i]>>, title |-> <<"A">>],
     Item(i, <<"A">>, <<>>),
     [title |-> <<"A">>, updated_at |-> <<"2">>],
     [id |-> <<>>, title |-> <<"A">>, updated_at |-> <<"2">>]}

RECURSIVE FDListings(_)
FDListings(n) ==
    IF n = 0 THEN {<<>>}
    ELSE LET shorter == FDListings(n - 1) IN
         shorter \cup
         {Append(l, it) : l \in {x \in shorter : Len(x) = n - 1}, it \in FDPool(n)}

InitFD ==
    /\ pc = "find_duplicates"
    /\ op_installed = TRUE
    /\ vault \in FDListings(MaxLen) \cup {ScenarioItems}
    /\ archived = {}
    /\ archived_before = {}
    /\ dry = TRUE
    /\ vault_arg = <<"V">>
    /\ vault_name = <<"V">>
    /\ run = 1
    /\ prev_converged = FALSE
    /\ Locals

\* lines 40-78: find_duplicates on the listing `vault`
FindDuplicatesCall ==
    /\ pc = "find_duplicates"
    /\ duplicates' = find_duplicates(vault)
    /\ pc' = "returned"
    /\ UNCHANGED <<op_installed, vault, archived, archived_before, dry, vault_arg, run,
                   call, accounts, account_user_id, vault_name, options, option_index,
                   selected_option, total_duplicates, user_input, pos, invocations,
                   described, console, prev_converged>>

NextFD == FindDuplicatesCall

SpecFD == InitFD /\ [][NextFD]_vars

----------------------------------------------------------------------------
(* select_option on its own *)

\* Menu entries are account lines and vault names, which are never empty.
OptionValues == {<<"V">>, <<"W">>, <<"X">>}

RECURSIVE OptionLists(_)
OptionLists(n) ==
    IF n = 0 THEN {<<>>}
    ELSE LET shorter == OptionLists(n - 1) IN
         shorter \cup
         {Append(l, o) : l \in {x \in shorter : Len(x) = n - 1}, o \in OptionValues}

SelectInputs ==
    {<<"1">>, <<"2">>, <<"3">>, <<"0">>, <<"0", "1">>, <<"1", "2">>, <<"x">>, <<>>,
     <<"-", "1">>, <<"SUPERSCRIPT TWO">>}

InitSelect ==
    /\ pc = "select_option"
    /\ options \in OptionLists(MaxOptions) \ {<<>>}
    /\ op_installed = TRUE
    /\ vault = <<>>
    /\ archived = {}
    /\ archived_before = {}
    /\ dry = TRUE
    /\ vault_arg = <<>>
    /\ vault_name = <<>>
    /\ run = 1
    /\ prev_converged = FALSE
    /\ call = NoCall
    /\ accounts = <<>>
    /\ account_user_id = <<>>
    /\ option_index = <<>>
    /\ selected_option = <<>>
    /\ duplicates = <<>>
    /\ total_duplicates = 0
    /\ user_input = <<>>
    /\ pos = 0
    /\ invocations = <<>>
    /\ described = <<>>
    /\ console = ""

\* lines 90-96: one answer to the prompt of select_option
SelectOption ==
    /\ pc = "select_option"
    /\ \E input \in SelectInputs :
        LET r == SelectPass(options, input) IN
        /\ option_index' = <<input>>
        /\ IF r.kind = "raise"
           THEN pc' = "raised" /\ UNCHANGED selected_option
           ELSE IF r.kind = "invalid"
           THEN UNCHANGED <<pc, selected_option>>
           ELSE IF r.kind = "again"
           THEN selected_option' = r.value /\ UNCHANGED pc
           ELSE selected_option' = r.value /\ pc' = "returned"
    /\ UNCHANGED <<op_installed, vault, archived, archived_before, dry, vault_arg, run,
                   call, accounts, account_user_id, vault_name, options, duplicates,
                   total_duplicates, user_input, pos, invocations, described,
                   console, prev_converged>>

NextSelect == SelectOption

SpecSelect == InitSelect /\ [][NextSelect]_vars

----------------------------------------------------------------------------
(* Properties of find_duplicates, checked under SpecFD *)

\* An item with title, updated_at and id all present and non-empty.
Complete(it) ==
    /\ {"title", "updated_at", "id"} \subseteq DOMAIN it
    /\ it.title # <<>>
    /\ it.updated_at # <<>>
    /\ it.id # <<>>

\* The positions of a listing that hold a complete item titled t.
TitledIn(items, t) ==
    {j \in 1..Len(items) : Complete(items[j]) /\ items[j].title = t}

Titled(t) == TitledIn(vault, t)

TitlesListed == {vault[j].title : j \in {i \in 1..Len(vault) : Complete(vault[i])}}

GroupKeys == {duplicates[g].title : g \in 1..Len(duplicates)}

\* C2: every returned group is in descending updated_at order under string
\* comparison, its first item carries the greatest updated_at of all complete items
\* with that title, and the scenario listing A/2024-01-01 (id 1), A/2024-03-01
\* (id 2), B/2024-01-01 (id 3) gives exactly the group A = [id 2, id 1].
C2_NewestFirst ==
    pc = "returned" =>
        /\ \A g \in 1..Len(duplicates) :
            LET its == duplicates[g].items IN
            /\ \A k \in 1..(Len(its) - 1) :
                ~StrLess(its[k].updated_at, its[k + 1].updated_at)
            /\ \A j \in Titled(duplicates[g].title) :
                ~StrLess(its[1].updated_at, vault[j].updated_at)
        /\ vault = ScenarioItems =>
            duplicates = << [title |-> <<"A">>,
                             items |-> <<ScenarioItems[2], ScenarioItems[1]>>] >>

C2_Witness ==
    /\ pc = "returned"
    /\ vault = ScenarioItems
    /\ Len(duplicates) = 1
    /\ duplicates[1].items[1].id = <<"2">>

\* C3: an item whose title, updated_at or id is absent or empty is in no returned
\* group, does not count toward the size of a group, and is not in the archive
\* worklist made from the groups.
C3_InvalidItemsExcluded ==
    pc = "returned" =>
        /\ \A g \in 1..Len(duplicates) :
            /\ \A k \in 1..Len(duplicates[g].items) : Complete(duplicates[g].items[k])
            /\ Len(duplicates[g].items) = Cardinality(Titled(duplicates[g].title))
        /\ \A w \in 1..Len(Worklist(duplicates)) : Complete(Worklist(duplicates)[w])

C3_Witness ==
    /\ pc = "returned"
    /\ duplicates # <<>>
    /\ \E j \in 1..Len(vault) :
        /\ ~Complete(vault[j])
        /\ "id" \notin DOMAIN vault[j]
        /\ vault[j].title = duplicates[1].title
    /\ \E j \in 1..Len(vault) : "updated_at" \in DOMAIN vault[j] /\ vault[j].updated_at = <<>>

\* C4: a title is a key of the result exactly when at least two complete items
\* carry it (titles compared as they are, so "A" and "a" differ), and its group
\* holds every complete item with that title exactly once.
C4_GroupsAreDuplicateSets ==
    pc = "returned" =>
        /\ \A t \in TitlesListed \cup GroupKeys :
            (t \in GroupKeys) <=> (Cardinality(Titled(t)) >= 2)
        /\ \A g, h \in 1..Len(duplicates) :
            duplicates[g].title = duplicates[h].title => g = h
        /\ \A g \in 1..Len(duplicates) :
            LET its == duplicates[g].items IN
            /\ Len(its) >= 2
            /\ Len(its) = Cardinality(Titled(duplicates[g].title))
            /\ {its[k] : k \in 1..Len(its)} =
                   {vault[j] : j \in Titled(duplicates[g].title)}
        /\ (\A t \in TitlesListed : Cardinality(Titled(t)) = 1) => duplicates = <<>>

C4_Witness ==
    /\ pc = "returned"
    /\ Cardinality(Titled(<<"A">>)) >= 2
    /\ Cardinality(Titled(<<"a">>)) = 1
    /\ Len(duplicates) = 1
    /\ Len(duplicates[1].items) = Cardinality(Titled(<<"A">>))

\* The position of a complete item in the listing (ids are unique).
Listed(it) == CHOOSE j \in 1..Len(vault) : vault[j] = it

\* C8: two items of a group with the same updated_at string stand in the group in
\* the order in which the store listed them.
C8_TiesKeepListingOrder ==
    pc = "returned" =>
        \A g \in 1..Len(duplicates) :
            LET its == duplicates[g].items IN
            \A k, l \in 1..Len(its) :
                (k < l /\ its[k].updated_at = its[l].updated_at)
                    => Listed(its[k]) < Listed(its[l])

C8_Witness ==
    /\ pc = "returned"
    /\ \E g \in 1..Len(duplicates) :
        LET its == duplicates[g].items IN
        /\ Len(its) >= 3
        /\ its[1].updated_at = its[2].updated_at
        /\ its[2].updated_at # its[3].updated_at
        /\ Listed(its[1]) < Listed(its[2])
        /\ Listed(its[3]) < Listed(its[1])

----------------------------------------------------------------------------
(* Properties of select_option, checked under SpecSelect *)

\* A decimal numeral and the number it writes.
IsNumber(s) == s # <<>> /\ \A i \in 1..Len(s) : s[i] \in DecimalChars
ValidChoice(input) ==
    IsNumber(input) /\ 1 <= int(input) /\ int(input) <= Len(options)

\* C9: after an input that is not a number in 1..len(options) the function is
\* still prompting (it has not returned and has not raised); after a number k in
\* that range it has returned options[k-1]; what it returns is an element of
\* options.
C9_SelectOptionReprompts ==
    /\ option_index # <<>> =>
        IF ValidChoice(option_index[1])
        THEN pc = "returned" /\ selected_option = options[int(option_index[1])]
        ELSE pc = "select_option"
    /\ pc = "returned" => \E k \in 1..Len(options) : selected_option = options[k]

----------------------------------------------------------------------------
(* Properties of the listing calls and of main, checked under Spec *)

\* C5: a listing call whose program cannot be started, or printed nothing, or
\* printed something that is not JSON, returns the empty sequence and does not
\* raise.
C5_ListingDegradesToEmpty ==
    (call.fn # "none" /\ (~call.installed \/ call.stdout \in {"empty", "text"}))
        => (call.raised = "no" /\ call.result = <<>>)

\* The ids at index >= 1 (archive candidates) and at index 0 (keep) of the groups.
ArchiveCandidates ==
    UNION {{duplicates[g].items[k].id : k \in 2..Len(duplicates[g].items)} :
           g \in 1..Len(duplicates)}
KeepIds == {duplicates[g].items[1].id : g \in 1..Len(duplicates)}


InvokedIds == {invocations[i].cmd.id : i \in 1..Len(invocations)}

\* C1: under --dry no delete command is run and the store is as the run found it;
\* without --dry every id given to the delete command is an archive candidate
\* (index >= 1 of a group), never the keep item of a group, and the store changed
\* for such ids only.
C1_OnlyCandidatesArchived ==
    /\ dry => (invocations = <<>> /\ archived = archived_before)
    /\ InvokedIds \subseteq ArchiveCandidates
    /\ InvokedIds \cap KeepIds = {}
    /\ (archived \ archived_before) \subseteq InvokedIds
    /\ \A id \in InvokedIds :
        \E j \in 1..Len(vault) :
            /\ Complete(vault[j])
            /\ vault[j].id = id
            /\ vault[j].title \in GroupKeys

C1_Witness ==
    /\ pc = "done"
    /\ ~dry
    /\ Len(duplicates) = 2
    /\ archived = ArchiveCandidates
    /\ Cardinality(archived) = 2
    /\ KeepIds \cap archived = {}

YesAnswers == {<<"y">>, <<"Y">>}

\* The listing holds no two complete items with the same title.
NoDuplicatesIn(items) ==
    \A i, j \in 1..Len(items) :
        (Complete(items[i]) /\ Complete(items[j]) /\ items[i].title = items[j].title)
            => i = j

NothingArchived == invocations = <<>> /\ described = <<>>

\* C6: a delete command is run or described only after the answer 'y' or 'Y' to
\* the one archive prompt; when the account list is empty, the vault list is
\* empty, no duplicates are found or the answer is anything else, the run has
\* ended normally with its message and no delete command was run or described.
C6_ArchiveOnlyAfterYes ==
    /\ (~NothingArchived \/ pc = "archive") =>
        (user_input # <<>> /\ user_input[1] \in YesAnswers)
    /\ (call.fn = "list_accounts" /\ call.raised = "no" /\ call.result = <<>>) =>
        (pc = "done" /\ console = "No accounts found" /\ NothingArchived)
    /\ (call.fn = "list_vaults" /\ call.raised = "no" /\ call.result = <<>>) =>
        (pc = "done" /\ console = "No vaults found" /\ NothingArchived)
    /\ (/\ call.fn = "list_items_in_vault"
        /\ call.raised = "no"
        /\ NoDuplicatesIn(call.result)) =>
        (pc = "done" /\ console = "No duplicates found" /\ NothingArchived)
    /\ (user_input # <<>> /\ user_input[1] \notin YesAnswers) =>
        (/\ pc = "done"
         /\ console = "Aborting: No items were archived"
         /\ NothingArchived)

C6_Witness ==
    /\ pc = "done"
    /\ dry
    /\ user_input = << <<"Y">> >>
    /\ Len(described) = 2
    /\ invocations = <<>>

\* The members at index >= 1 of every group, group after group.
RECURSIVE CandidatesInOrder(_)
CandidatesInOrder(dups) ==
    IF dups = <<>> THEN <<>>
    ELSE SubSeq(Head(dups).items, 2, Len(Head(dups).items))
             \o CandidatesInOrder(Tail(dups))

\* C7: in a confirmed run without --dry the delete commands run so far are, in
\* order and once each, the first archive candidates in group-then-member order,
\* whatever their exit statuses; when the run is done there is one command for
\* every candidate, as many as the announced total_duplicates.
C7_OneInvocationPerCandidate ==
    (~dry /\ pc \in {"archive", "done", "raised"} /\ user_input # <<>>
          /\ user_input[1] \in YesAnswers) =>
        LET expected == CandidatesInOrder(duplicates) IN
        /\ total_duplicates = Len(expected)
        /\ Len(invocations) <= Len(expected)
        /\ \A i \in 1..Len(invocations) :
            /\ invocations[i].cmd.id = expected[i].id
            /\ invocations[i].cmd.vault = vault_name
            /\ invocations[i].cmd.account = account_user_id
        /\ pc = "archive" => (Len(invocations) = pos - 1 /\ pos <= Len(expected))
        /\ pc = "done" => Len(invocations) = total_duplicates
        /\ pc # "raised"

C7_Witness ==
    /\ pc = "done"
    /\ ~dry
    /\ Len(duplicates) = 2
    /\ Len(invocations) = 2
    /\ invocations[1].rc = 1
    /\ invocations[2].rc = 0
    /\ invocations[1].cmd.id \notin archived

\* The items `op item list` shows now.
Active == ActiveItems(vault, archived)

\* C10: the keep item of every group is never archived; when a confirmed run
\* without --dry is done and all its delete commands succeeded, no title is left
\* with two complete active items and every group's keep item is still active; the
\* run after such a run gets past the listing only to "No duplicates found" and
\* runs or describes no delete command.
C10_ConvergesKeepingKeep ==
    /\ KeepIds \cap archived = {}
    /\ (/\ pc = "done"
        /\ console = "Done! The duplicates have been archived"
        /\ ~dry
        /\ \A k \in 1..Len(invocations) : invocations[k].rc = 0) =>
        /\ NoDuplicatesIn(Active)
        /\ \A g \in 1..Len(duplicates) :
            \E j \in 1..Len(Active) : Active[j] = duplicates[g].items[1]
    /\ prev_converged =>
        /\ NothingArchived
        /\ duplicates = <<>>
        /\ pc \in {"list_accounts", "select_account", "list_vaults", "select_vault",
                   "find_duplicates", "raised", "done"}
        /\ (call.fn = "list_items_in_vault" /\ call.raised = "no") =>
            (pc = "done" /\ console = "No duplicates found")

C10_Witness ==
    /\ prev_converged
    /\ pc = "done"
    /\ console = "No duplicates found"
    /\ call.stdout = "json"
    /\ Cardinality(archived) = 2
    /\ Len(call.result) = 2

====
